---- MODULE Spec2Model ----
(***************************************************************************)
(* User management API (Express + Mongoose): the /api/users handlers of    *)
(* server.js over the users collection, and the /api/auth routes.          *)
(*                                                                         *)
(* Strings are tuples of one-character strings; the empty tuple stands for *)
(* a falsy string (undefined or ""), which every `!x` / `if (x)` test of   *)
(* the handlers treats alike.                                              *)
(***************************************************************************)
EXTENDS Integers, Sequences, FiniteSets, TLC

VARIABLES users, pc, pending, nextId, resp, now, bearer

vars == <<users, pc, pending, nextId, resp, now, bearer>>

(***************************************************************************)
(* Bounds of the model.                                                    *)
(***************************************************************************)
\* ObjectIds ever handed out to documents that reach the insert.
MaxId == 2
\* The clock stops after this many hours.
MaxTime == 24

\* Two request slots: the handlers of two requests may interleave at each await.
Reqs == {1, 2}

(***************************************************************************)
(* Strings.                                                                *)
(***************************************************************************)
Lower(c) == CASE c = "A" -> "a" [] c = "B" -> "b" [] c = "X" -> "x" [] OTHER -> c

\* String.prototype.toLowerCase, and the schema's `lowercase` setter.
ToLowerCase(s) == [i \in DOMAIN s |-> Lower(s[i])]

Falsy(s) == s = <<>>

Digits == {"0", "1", "2", "3", "4", "5", "6", "7", "8", "9"}

DigitVal(c) ==
  CASE c = "0" -> 0 [] c = "1" -> 1 [] c = "2" -> 2 [] c = "3" -> 3 [] c = "4" -> 4
    [] c = "5" -> 5 [] c = "6" -> 6 [] c = "7" -> 7 [] c = "8" -> 8 [] c = "9" -> 9

\* Length of the longest prefix of s made of decimal digits.
RECURSIVE DigitPrefix(_)
DigitPrefix(s) ==
  IF s = <<>> \/ Head(s) \notin Digits THEN 0 ELSE 1 + DigitPrefix(Tail(s))

RECURSIVE Decimal(_, _)
Decimal(s, n) == IF n = 0 THEN 0 ELSE 10 * Decimal(s, n - 1) + DigitVal(s[n])

\* parseInt of a string: the leading digits, NaN when there are none.
ParseIntStr(s) ==
  LET n == DigitPrefix(s)
  IN  IF n = 0 THEN [nan |-> TRUE, v |-> 0] ELSE [nan |-> FALSE, v |-> Decimal(s, n)]

(***************************************************************************)
(* A JSON value given as `age`: undefined, a number (integers here) or a   *)
(* string.                                                                 *)
(***************************************************************************)
Undef == [t |-> "undef", n |-> 0, s |-> <<>>]
Num(n) == [t |-> "num", n |-> n, s |-> <<>>]
Str(s) == [t |-> "str", n |-> 0, s |-> s]

FalsyVal(a) ==
  \/ a.t = "undef"
  \/ a.t = "num" /\ a.n = 0
  \/ a.t = "str" /\ a.s = <<>>

\* parseInt(age): a number is converted to its decimal string first.
ParseInt(a) ==
  CASE a.t = "num" -> [nan |-> FALSE, v |-> a.n]
    [] a.t = "str" -> ParseIntStr(a.s)
    [] OTHER -> [nan |-> TRUE, v |-> 0]

(***************************************************************************)
(* The User schema.                                                        *)
(***************************************************************************)
MinPasswordLength == 6
MinAge == 1
MaxAge == 120

\* bcrypt: the stored value is never the plaintext.
Hash(pw) == <<"$2b$12$">> \o pw

Compare(pw, hash) == hash = Hash(pw)

\* new User({name, email, password, age: parseInt(age)}) with a fresh _id.
NewUser(body, id, t) ==
  [id |-> id, name |-> body.name, email |-> ToLowerCase(body.email),
   password |-> body.password, age |-> ParseInt(body.age), createdAt |-> t]

\* Mutant: the lower bound off by one.
AgeInRange_FromZero(n) == n >= 0 /\ n <= MaxAge

AgeInRange(n) == n >= MinAge /\ n <= MaxAge

\* The validators save() runs before anything is written.
ValidationErrors(doc) ==
  (IF Falsy(doc.name) THEN {"name"} ELSE {})
  \cup (IF Falsy(doc.email) THEN {"email"} ELSE {})
  \cup (IF Len(doc.password) < MinPasswordLength THEN {"password"} ELSE {})
  \cup (IF doc.age.nan \/ ~AgeInRange(doc.age.v) THEN {"age"} ELSE {})

\* The document as written: the password hashed by the pre-save hook.
Persisted(doc) ==
  [id |-> doc.id, name |-> doc.name, email |-> doc.email,
   password |-> Hash(doc.password), age |-> doc.age.v, createdAt |-> doc.createdAt]

\* Mutant: the collection has no unique index.
DuplicateKey_NoIndex(coll, doc) == FALSE

\* The unique index on email: an insert of a key already there fails (E11000).
DuplicateKey(coll, doc) == \E u \in coll : u.email = doc.email

\* Mongoose casts an id to ObjectId before querying; a malformed one throws
\* CastError. Ids are numbers here, and 0 stands for a text that is no ObjectId.
IsObjectId(id) == id >= 1

FindOneByEmail(coll, e) == {u \in coll : u.email = e}

\* Mutant: the lookup by the email as given.
ExistingUser_AsGiven(coll, body) == {u \in coll : u.email = body.email}

\* User.findOne({ email: email.toLowerCase() })
ExistingUser(coll, body) == FindOneByEmail(coll, ToLowerCase(body.email))

FindById(coll, id) == {u \in coll : u.id = id}

\* Mutant: the projection left out.
SelectMinusPassword_All(u) == u

\* .select('-password')
SelectMinusPassword(u) == [f \in DOMAIN u \ {"password"} |-> u[f]]

\* User.prototype.toJSON
ToJSON(u) == [f \in DOMAIN u \ {"password"} |-> u[f]]

(***************************************************************************)
(* Responses.                                                              *)
(***************************************************************************)
NoToken == [sub |-> 0, iat |-> 0, exp |-> 0, sig |-> "none"]

Response(op, status, message, us, errs) ==
  [op |-> op, status |-> status, message |-> message, users |-> us,
   count |-> Cardinality(us), errors |-> errs, token |-> NoToken]

NoResponse == Response("none", 0, "", {}, {})

RequiredMsg == "Name, email, password, and age are required"
EmailExistsMsg == "User with this email already exists"
ValidationMsg == "Validation error"
CreatedMsg == "User created successfully"
CreateErrorMsg == "Error creating user"
NotFoundMsg == "User not found"
DeletedMsg == "User deleted successfully"
DeleteErrorMsg == "Error deleting user"
GetErrorMsg == "Error retrieving user"

\* The fields the fixed text of RequiredMsg names.
RequiredMsgFields == {"name", "email", "password", "age"}

NoDoc == [id |-> 0, name |-> <<>>, email |-> <<>>, password |-> <<>>, age |-> 0,
          createdAt |-> 0]

(***************************************************************************)
(* Inputs.                                                                 *)
(***************************************************************************)
NameInputs == {<<"A", "b">>, <<"c">>}
EmailInputs == {<<"A", "x", "b">>, <<"a", "x", "b">>, <<"c">>}
GoodPassword == <<"s", "e", "c", "r", "e", "t">>
ShortPassword == <<"s", "h", "o", "r", "t">>
PasswordInputs == {GoodPassword, ShortPassword}

BaseBody == [name |-> <<"A", "b">>, email |-> <<"A", "x", "b">>,
             password |-> GoodPassword, age |-> Num(1)]

\* Bodies every field of which passes the presence check and the validators.
ValidBodies ==
  {BaseBody,
   [BaseBody EXCEPT !.email = <<"a", "x", "b">>, !.age = Num(120)],
   [BaseBody EXCEPT !.name = <<"c">>, !.email = <<"c">>, !.age = Str(<<"1", "2", "0">>)],
   [BaseBody EXCEPT !.name = <<"c">>, !.email = <<"c">>, !.age = Str(<<"1", "x">>)]}

\* BaseBody with fields left out or out of range.
DefectiveBodies ==
  {[BaseBody EXCEPT !.name = <<>>], [BaseBody EXCEPT !.email = <<>>],
   [BaseBody EXCEPT !.password = <<>>], [BaseBody EXCEPT !.age = Undef],
   [BaseBody EXCEPT !.name = <<>>, !.age = Undef],
   [name |-> <<>>, email |-> <<>>, password |-> <<>>, age |-> Undef],
   [BaseBody EXCEPT !.password = ShortPassword],
   [BaseBody EXCEPT !.age = Num(0)], [BaseBody EXCEPT !.age = Num(121)],
   [BaseBody EXCEPT !.age = Str(<<"0">>)], [BaseBody EXCEPT !.age = Str(<<"1", "2", "1">>)],
   [BaseBody EXCEPT !.age = Str(<<"x">>)]}

Bodies == ValidBodies \cup DefectiveBodies

IdInputs == 0 .. MaxId

\* Mutant: the presence check forgets the password.
MissingFields_NoPassword(body) ==
  (IF Falsy(body.name) THEN {"name"} ELSE {})
  \cup (IF Falsy(body.email) THEN {"email"} ELSE {})
  \cup (IF FalsyVal(body.age) THEN {"age"} ELSE {})

\* The fields the presence check of POST /api/users finds falsy.
MissingFields(body) ==
  (IF Falsy(body.name) THEN {"name"} ELSE {})
  \cup (IF Falsy(body.email) THEN {"email"} ELSE {})
  \cup (IF Falsy(body.password) THEN {"password"} ELSE {})
  \cup (IF FalsyVal(body.age) THEN {"age"} ELSE {})

(***************************************************************************)
(* Init                                                                    *)
(***************************************************************************)
Init ==
  /\ users = {}
  /\ pc = [r \in Reqs |-> "idle"]
  /\ pending = [r \in Reqs |-> NoDoc]
  /\ nextId = 1
  /\ resp = NoResponse
  /\ now = 0
  /\ bearer = NoToken

(***************************************************************************)
(* POST /api/users, up to the await of newUser.save()'s insert: the        *)
(* presence check, the findOne, the construction of the document and the   *)
(* validators of save(), which read nothing shared. The _id of a document  *)
(* is fresh: ids are counted only for documents that reach the insert, and *)
(* no id is handed out twice.                                              *)
(***************************************************************************)
CreateCheck(r, body) ==
  /\ pc[r] = "idle"
  /\ IF MissingFields(body) # {}
       THEN /\ resp' = Response("create", 400, RequiredMsg, {}, {})
            /\ UNCHANGED <<users, pc, pending, nextId, now, bearer>>
     ELSE IF ExistingUser(users, body) # {}
       THEN /\ resp' = Response("create", 400, EmailExistsMsg, {}, {})
            /\ UNCHANGED <<users, pc, pending, nextId, now, bearer>>
     ELSE LET doc == NewUser(body, nextId, now)
          IN  IF ValidationErrors(doc) # {}
                THEN /\ resp' = Response("create", 400, ValidationMsg, {},
                                         ValidationErrors(doc))
                     /\ UNCHANGED <<users, pc, pending, nextId, now, bearer>>
                ELSE /\ nextId <= MaxId
                     /\ pending' = [pending EXCEPT ![r] = Persisted(doc)]
                     /\ pc' = [pc EXCEPT ![r] = "insert"]
                     /\ nextId' = nextId + 1
                     /\ UNCHANGED <<users, resp, now, bearer>>

(***************************************************************************)
(* POST /api/users, the insert of newUser.save() and the response: the     *)
(* unique index decides; a duplicate key is no ValidationError, so the     *)
(* catch answers 500.                                                      *)
(***************************************************************************)
CreateSave(r) ==
  /\ pc[r] = "insert"
  /\ IF DuplicateKey(users, pending[r])
       THEN /\ resp' = Response("create", 500, CreateErrorMsg, {}, {"E11000"})
            /\ UNCHANGED users
       ELSE /\ users' = users \cup {pending[r]}
            /\ resp' = Response("create", 201, CreatedMsg, {ToJSON(pending[r])}, {})
  /\ pc' = [pc EXCEPT ![r] = "idle"]
  /\ pending' = [pending EXCEPT ![r] = NoDoc]
  /\ UNCHANGED <<nextId, now, bearer>>

(***************************************************************************)
(* GET /api/users/:id                                                      *)
(***************************************************************************)
GetUser(id) ==
  /\ resp' = IF ~IsObjectId(id) THEN Response("get", 500, GetErrorMsg, {}, {"CastError"})
             ELSE IF FindById(users, id) = {} THEN Response("get", 404, NotFoundMsg, {}, {})
             ELSE Response("get", 200, "", {SelectMinusPassword(u) : u \in FindById(users, id)}, {})
  /\ UNCHANGED <<users, pc, pending, nextId, now, bearer>>

(***************************************************************************)
(* DELETE /api/users/:id                                                   *)
(***************************************************************************)
DeleteUser(id) ==
  /\ IF ~IsObjectId(id)
       THEN /\ resp' = Response("delete", 500, DeleteErrorMsg, {}, {"CastError"})
            /\ UNCHANGED users
     ELSE IF FindById(users, id) = {}
       THEN /\ resp' = Response("delete", 404, NotFoundMsg, {}, {})
            /\ UNCHANGED users
     ELSE /\ users' = users \ FindById(users, id)
          /\ resp' = Response("delete", 200, DeletedMsg,
                              {SelectMinusPassword(u) : u \in FindById(users, id)}, {})
  /\ UNCHANGED <<pc, pending, nextId, now, bearer>>

(***************************************************************************)
(* GET /api/users: the query string becomes a Mongo filter. $regex takes   *)
(* the text as a pattern ("." matches any character), unanchored, with     *)
(* option i.                                                               *)
(***************************************************************************)
RegexMatchAt(p, s, off) ==
  \A i \in 1 .. Len(p) : p[i] = "." \/ Lower(p[i]) = Lower(s[off + i])

RegexTest(p, s) == \E off \in 0 .. (Len(s) - Len(p)) : RegexMatchAt(p, s, off)

Matches(q, u) ==
  /\ ~Falsy(q.name) => RegexTest(q.name, u.name)
  /\ ~Falsy(q.email) => RegexTest(q.email, u.email)
  /\ (~Falsy(q.minAge) \/ ~Falsy(q.maxAge)) =>
       /\ ~Falsy(q.minAge) => u.age >= ParseIntStr(q.minAge).v
       /\ ~Falsy(q.maxAge) => u.age <= ParseIntStr(q.maxAge).v

Find(coll, q) == {u \in coll : Matches(q, u)}

Queries == [name : {<<>>, <<"a">>, <<".", "b">>}, email : {<<>>, <<"X", "B">>},
            minAge : {<<>>, <<"2">>, <<"1", "2", "0">>}, maxAge : {<<>>, <<"2">>}]

ListUsers(q) ==
  /\ resp' = Response("list", 200, "", {SelectMinusPassword(u) : u \in Find(users, q)}, {})
  /\ UNCHANGED <<users, pc, pending, nextId, now, bearer>>

(***************************************************************************)
(* Session tokens (config.jwt) and the /api/auth routes. Times are hours.  *)
(***************************************************************************)
ExpiresIn == 24
HalfDay == ExpiresIn \div 2
Secret == "secret"

IssueToken(id, t) == [sub |-> id, iat |-> t, exp |-> t + ExpiresIn, sig |-> Secret]

\* The signature binds the claims; the token is rejected from its expiry time on.
TokenValid(tok, t) == tok.sig = Secret /\ t < tok.exp

InvalidCredentialsMsg == "Invalid credentials"
InvalidTokenMsg == "Invalid or expired token"
RegisteredMsg == "User registered successfully"
LoginMsg == "Login successful"

AuthFailure(op) == Response(op, 401, InvalidCredentialsMsg, {}, {})

\* Mutant: an unknown email answered as not found.
UnknownEmailFailure_NotFound == Response("login", 404, NotFoundMsg, {}, {})

\* login's answer when no user has the email, and when the password does not match.
UnknownEmailFailure == AuthFailure("login")
WrongPasswordFailure == AuthFailure("login")

WithToken(r, tok) == [r EXCEPT !.token = tok]

\* POST /api/auth/register
Register(body) ==
  IF MissingFields(body) # {}
    THEN /\ resp' = Response("register", 400, ValidationMsg, {}, MissingFields(body))
         /\ UNCHANGED <<users, pc, pending, nextId, now, bearer>>
  ELSE LET doc == NewUser(body, nextId, now)
       IN  IF ValidationErrors(doc) # {}
             THEN /\ resp' = Response("register", 400, ValidationMsg, {},
                                      ValidationErrors(doc))
                  /\ UNCHANGED <<users, pc, pending, nextId, now, bearer>>
           ELSE IF DuplicateKey(users, doc)
             THEN /\ resp' = Response("register", 400, EmailExistsMsg, {}, {})
                  /\ UNCHANGED <<users, pc, pending, nextId, now, bearer>>
           ELSE /\ nextId <= MaxId
                /\ users' = users \cup {Persisted(doc)}
                /\ nextId' = nextId + 1
                /\ bearer' = IssueToken(doc.id, now)
                /\ resp' = WithToken(Response("register", 201, RegisteredMsg,
                                              {ToJSON(Persisted(doc))}, {}),
                                     IssueToken(doc.id, now))
                /\ UNCHANGED <<pc, pending, now>>

\* POST /api/auth/login
Login(email, password) ==
  LET found == FindOneByEmail(users, ToLowerCase(email))
  IN  /\ IF found = {}
           THEN /\ resp' = UnknownEmailFailure
                /\ UNCHANGED bearer
         ELSE IF \E u \in found : ~Compare(password, u.password)
           THEN /\ resp' = WrongPasswordFailure
                /\ UNCHANGED bearer
           ELSE \E u \in found :
                  /\ bearer' = IssueToken(u.id, now)
                  /\ resp' = WithToken(Response("login", 200, LoginMsg, {ToJSON(u)}, {}),
                                       IssueToken(u.id, now))
      /\ UNCHANGED <<users, pc, pending, nextId, now>>

\* The authenticateToken middleware: the subject, or 0 for a rejected token.
AuthenticateToken(tok) == IF TokenValid(tok, now) THEN tok.sub ELSE 0

\* getProfile for the authenticated subject.
GetProfile(id) ==
  IF FindById(users, id) = {} THEN Response("profile", 404, NotFoundMsg, {}, {})
  ELSE Response("profile", 200, "", {SelectMinusPassword(u) : u \in FindById(users, id)}, {})

\* Mutant: the route without the middleware.
Profile_NoAuth(tok) ==
  /\ resp' = GetProfile(tok.sub)
  /\ UNCHANGED <<users, pc, pending, nextId, now, bearer>>

\* GET /api/auth/profile: router.get('/profile', authenticateToken, getProfile)
Profile(tok) ==
  /\ resp' = IF AuthenticateToken(tok) = 0
               THEN Response("profile", 401, InvalidTokenMsg, {}, {})
               ELSE GetProfile(AuthenticateToken(tok))
  /\ UNCHANGED <<users, pc, pending, nextId, now, bearer>>

\* What a caller may present: the token it holds, that token with its subject
\* changed (the signature no longer matches), or none.
Forged(tok) == [tok EXCEPT !.sub = tok.sub + 1, !.sig = "forged"]
Presented == {bearer, Forged(bearer), NoToken}

Tick ==
  /\ now + HalfDay <= MaxTime
  /\ now' = now + HalfDay
  /\ UNCHANGED <<users, pc, pending, nextId, resp, bearer>>

(***************************************************************************)
(* The /api/users routes of server.js; two create requests may interleave  *)
(* at their awaits.                                                        *)
(***************************************************************************)
Next ==
  \/ \E r \in Reqs, body \in Bodies : CreateCheck(r, body)
  \/ \E r \in Reqs : CreateSave(r)
  \/ \E id \in IdInputs : GetUser(id)
  \/ \E id \in IdInputs : DeleteUser(id)
  \/ \E q \in Queries : ListUsers(q)

Spec == Init /\ [][Next]_vars

(***************************************************************************)
(* Every route of the service, at one time of the clock.                   *)
(***************************************************************************)
ApiNext ==
  \/ Next
  \/ \E body \in Bodies : Register(body)
  \/ \E e \in EmailInputs, p \in PasswordInputs : Login(e, p)
  \/ \E tok \in Presented : Profile(tok)

ApiSpec == Init /\ [][ApiNext]_vars

(***************************************************************************)
(* The /api/auth routes and deletion, under a clock that advances.         *)
(***************************************************************************)
AuthNext ==
  \/ \E body \in Bodies : Register(body)
  \/ \E e \in EmailInputs, p \in PasswordInputs : Login(e, p)
  \/ \E tok \in Presented : Profile(tok)
  \/ \E id \in IdInputs : DeleteUser(id)
  \/ Tick

AuthSpec == Init /\ [][AuthNext]_vars

(***************************************************************************)
(* Properties.                                                             *)
(***************************************************************************)
IsValidationError(r) == r.status = 400 /\ r.message \in {RequiredMsg, ValidationMsg}
IsConflictError(r) == r.status = 400 /\ r.message = EmailExistsMsg
IsInternalError(r) == r.status = 500

\* The fields of a body that are absent.
AbsentFields(body) ==
  (IF body.name = <<>> THEN {"name"} ELSE {})
  \cup (IF body.email = <<>> THEN {"email"} ELSE {})
  \cup (IF body.password = <<>> THEN {"password"} ELSE {})
  \cup (IF body.age = Undef THEN {"age"} ELSE {})

\* Stored records whose email equals e ignoring letter case.
SameEmail(coll, e) == {u \in coll : ToLowerCase(u.email) = ToLowerCase(e)}

\* C1: of two create requests in flight with emails equal after lowercasing, the
\* one whose insert comes first succeeds and the other ends in a ConflictError
\* (never a second success, never an internal failure) and writes nothing.
C1_OneSuccessOneConflict ==
  [][\A r \in Reqs :
       (pc[r] = "insert" /\ pc'[r] = "idle") =>
         IF SameEmail(users, pending[r].email) # {}
           THEN IsConflictError(resp') /\ users' = users
           ELSE resp'.status = 201 /\ users' = users \cup {pending[r]}]_vars

\* C2: no two stored records have the same lowercased email, and every stored
\* email is in lowercase form.
C2_UniqueLowercaseEmails ==
  /\ \A u \in users : \A v \in users : ToLowerCase(u.email) = ToLowerCase(v.email) => u = v
  /\ \A u \in users : u.email = ToLowerCase(u.email)

\* Two requests raced for one email: one record is stored, the other insert was refused.
C2_Witness ==
  /\ resp.op = "create" /\ resp.status = 500
  /\ \E u \in users : u.email = <<"a", "x", "b">>

\* C3: a create whose fields are all present and whose email equals, ignoring
\* case, the email of a stored record ends in the conflict answer, which is
\* neither a validation answer nor an internal failure, and the store and the
\* requests in flight are as before.
C3_DuplicateEmailConflict ==
  [][\A r \in Reqs : \A body \in Bodies :
       (CreateCheck(r, body) /\ AbsentFields(body) = {} /\ ~FalsyVal(body.age)
          /\ SameEmail(users, body.email) # {}) =>
         /\ IsConflictError(resp')
         /\ ~IsValidationError(resp') /\ ~IsInternalError(resp')
         /\ resp'.users = {}
         /\ users' = users /\ pc' = pc /\ pending' = pending]_vars

C3_Witness ==
  /\ resp.op = "create" /\ IsConflictError(resp)
  /\ Cardinality(users) = 1

\* C4: no record in any response carries the password field.
C4_NoPasswordInResponses == \A x \in resp.users : "password" \notin DOMAIN x

C4_Witness ==
  /\ resp.op = "delete" /\ resp.status = 200 /\ resp.users # {}
  /\ \A x \in resp.users : x.email = <<"a", "x", "b">>
  /\ \E u \in users : u.password = Hash(GoodPassword)

\* C5: login with an unregistered email and login with a registered email and a
\* wrong password end in one and the same 401 answer; login with the registered
\* password succeeds with a token that validates, for the user of that email.
C5_LoginFailuresIdentical ==
  [][\A e \in EmailInputs : \A p \in PasswordInputs :
       Login(e, p) =>
         IF \E u \in SameEmail(users, e) : u.password = Hash(p)
           THEN /\ resp'.status = 200
                /\ TokenValid(resp'.token, now)
                /\ resp'.token.sub \in {u.id : u \in SameEmail(users, e)}
                /\ bearer' = resp'.token
           ELSE /\ resp' = Response("login", 401, InvalidCredentialsMsg, {}, {})
                /\ bearer' = bearer]_vars

\* A login was refused while a user is registered.
C5_Witness == resp.op = "login" /\ resp.status = 401 /\ users # {}

\* C6: a token issued at t validates to its subject at every time before t + 24h
\* and is rejected from t + 24h on; once rejected it is never accepted again;
\* and the profile route answers with profile data only for a token that validates.
C6_TokenWindow ==
  /\ [](bearer # NoToken =>
          /\ now < bearer.iat + 24 => AuthenticateToken(bearer) = bearer.sub
          /\ now >= bearer.iat + 24 => AuthenticateToken(bearer) = 0)
  /\ [][(bearer # NoToken /\ ~TokenValid(bearer, now)) => ~TokenValid(bearer, now')]_vars
  /\ [][\A tok \in Presented :
          Profile(tok) =>
            IF tok.sig = Secret /\ now < tok.iat + 24
              THEN resp' = GetProfile(tok.sub)
              ELSE resp'.status = 401 /\ resp'.users = {}]_vars

\* The token held has expired and was turned away by the profile route.
C6_Witness ==
  /\ bearer # NoToken /\ now >= bearer.iat + 24
  /\ resp.op = "profile" /\ resp.status = 401
  /\ \E u \in users : u.id = bearer.sub

AgeIs(body, n) ==
  \/ body.age = Num(n)
  \/ n = 0 /\ body.age = Str(<<"0">>)
  \/ n = 1 /\ body.age = Str(<<"1">>)
  \/ n = 120 /\ body.age = Str(<<"1", "2", "0">>)
  \/ n = 121 /\ body.age = Str(<<"1", "2", "1">>)

OtherwiseValid(body) ==
  /\ body.name # <<>> /\ body.email # <<>> /\ Len(body.password) >= 6

\* C7: a create with otherwise valid fields and an unused email goes on to store
\* the record when age is 1 or 120 and ends in a validation answer, the store
\* untouched, when age is 0 or 121; every stored age is an integer in 1..120.
C7_AgeBounds ==
  /\ [](\A u \in users : u.age \in 1 .. 120)
  /\ [][\A r \in Reqs : \A body \in Bodies :
          (CreateCheck(r, body) /\ OtherwiseValid(body) /\ SameEmail(users, body.email) = {}) =>
            /\ (AgeIs(body, 1) \/ AgeIs(body, 120)) =>
                 /\ pc'[r] = "insert" /\ resp' = resp
                 /\ pending'[r].age = (IF AgeIs(body, 1) THEN 1 ELSE 120)
            /\ (AgeIs(body, 0) \/ AgeIs(body, 121)) =>
                 /\ IsValidationError(resp')
                 /\ users' = users /\ pc' = pc /\ pending' = pending]_vars
  /\ [][\A r \in Reqs :
          (pc[r] = "insert" /\ pc'[r] = "idle" /\ SameEmail(users, pending[r].email) = {}) =>
            /\ resp'.status = 201
            /\ pending[r] \in users'
            /\ \A x \in resp'.users : x.age = pending[r].age]_vars

\* A record of age 120 is stored and a create was turned away for its age.
C7_Witness ==
  /\ \E u \in users : u.age = 120
  /\ resp.op = "create" /\ IsValidationError(resp) /\ resp.errors = {"age"}

\* The fields a validation answer lists.
ListedFields(r) == IF r.message = RequiredMsg THEN RequiredMsgFields ELSE r.errors

\* C8, as stated: a create with an absent field ends in a validation answer that
\* lists the absent fields, and nothing is stored.
C8_ListsMissingFields ==
  [][\A r \in Reqs : \A body \in Bodies :
       (CreateCheck(r, body) /\ AbsentFields(body) # {}) =>
         /\ IsValidationError(resp')
         /\ ListedFields(resp') = AbsentFields(body)
         /\ users' = users /\ pc' = pc /\ pending' = pending]_vars

\* C8, amended: a create with an absent field ends in the one fixed validation
\* answer, whose text names all four required fields whichever are absent and
\* whether or not the email is stored already, and nothing is stored.
C8_FixedRequiredMessage ==
  [][\A r \in Reqs : \A body \in Bodies :
       (CreateCheck(r, body) /\ AbsentFields(body) # {}) =>
         /\ resp' = Response("create", 400, RequiredMsg, {}, {})
         /\ IsValidationError(resp')
         /\ AbsentFields(body) \subseteq ListedFields(resp')
         /\ ListedFields(resp') = {"name", "email", "password", "age"}
         /\ users' = users /\ pc' = pc /\ pending' = pending /\ nextId' = nextId]_vars

\* The presence check refused a request while the email of BaseBody is stored.
C8_Witness ==
  /\ resp.op = "create" /\ resp.message = RequiredMsg
  /\ \E u \in users : u.email = <<"a", "x", "b">>

\* C9: deleting a stored id removes exactly that record and returns it, after
\* which the id is not found and its email is free; deleting an id that is not
\* stored answers not-found and leaves the store unchanged.
C9_DeleteById ==
  [][\A id \in IdInputs :
       DeleteUser(id) =>
         IF \E u \in users : u.id = id
           THEN \E u \in users :
                  /\ u.id = id
                  /\ users' = users \ {u}
                  /\ resp'.status = 200
                  /\ resp'.users = {[f \in DOMAIN u \ {"password"} |-> u[f]]}
                  /\ FindById(users', id) = {}
                  /\ SameEmail(users', u.email) = {}
           ELSE resp'.status = 404 /\ users' = users]_vars

\* C9 for ObjectIds only: the statement above with ids that are well formed.
C9_DeleteByObjectId ==
  [][\A id \in 1 .. MaxId :
       DeleteUser(id) =>
         IF \E u \in users : u.id = id
           THEN \E u \in users :
                  /\ u.id = id
                  /\ users' = users \ {u}
                  /\ resp'.status = 200
                  /\ resp'.users = {[f \in DOMAIN u \ {"password"} |-> u[f]]}
                  /\ FindById(users', id) = {}
                  /\ SameEmail(users', u.email) = {}
           ELSE resp'.status = 404 /\ users' = users]_vars

\* s contains sub as a substring, ignoring letter case.
Contains(s, sub) ==
  \E off \in 0 .. (Len(s) - Len(sub)) :
    \A i \in 1 .. Len(sub) : Lower(sub[i]) = Lower(s[off + i])

\* The number a string of decimal digits writes.
RECURSIVE NumberOf(_)
NumberOf(s) ==
  IF s = <<>> THEN 0 ELSE 10 * NumberOf(SubSeq(s, 1, Len(s) - 1)) + DigitVal(s[Len(s)])

Satisfies(q, u) ==
  /\ q.name # <<>> => Contains(u.name, q.name)
  /\ q.email # <<>> => Contains(u.email, q.email)
  /\ q.minAge # <<>> => u.age >= NumberOf(q.minAge)
  /\ q.maxAge # <<>> => u.age <= NumberOf(q.maxAge)

\* C10: list returns exactly the stored records that satisfy every criterion
\* given (substring ignoring case for name and email, inclusive age bounds),
\* without the password, the count is their number, and the store is unchanged.
C10_ListFilter ==
  [][\A q \in Queries :
       ListUsers(q) =>
         /\ resp'.users = {[f \in DOMAIN u \ {"password"} |-> u[f]] :
                             u \in {v \in users : Satisfies(q, v)}}
         /\ resp'.count = Cardinality({v \in users : Satisfies(q, v)})
         /\ resp'.status = 200
         /\ users' = users]_vars

\* Queries whose name and email hold no pattern character.
PlainQueries == {q \in Queries : \A i \in DOMAIN q.name : q.name[i] # "."}

\* C10 for plain text: the statement above with queries free of pattern characters.
C10_ListFilterPlain ==
  [][\A q \in PlainQueries :
       ListUsers(q) =>
         /\ resp'.users = {[f \in DOMAIN u \ {"password"} |-> u[f]] :
                             u \in {v \in users : Satisfies(q, v)}}
         /\ resp'.count = Cardinality({v \in users : Satisfies(q, v)})
         /\ resp'.status = 200
         /\ users' = users]_vars
====
